---- MODULE Spec2Model ----
(***************************************************************************)
(* Model of the Arduino-Log library (ArduinoLog.h / ArduinoLog.cpp).       *)
(*                                                                         *)
(* The program state is the single global instance `Log` of class Logging. *)
(* The methods of the class are operators on the object; one action per    *)
(* public method applies the method to the global instance.  The sink, a   *)
(* Print object, and the hooks (printfunction) are external, so a logging  *)
(* call is observed as the sequence of calls it makes on them.             *)
(***************************************************************************)
EXTENDS Integers, Sequences, FiniteSets

VARIABLES
    Log,        \* the global Logging instance (ArduinoLog.cpp:89)
    out,        \* calls made on sink and hooks by the most recent public call
    crashed,    \* the program faulted on a null sink dereference
    lastCall,   \* history: the most recent public call, [fn, args]
    repeat,     \* history: lastCall repeats the call made just before it
    cleared     \* history: hook members that were installed and then reset

vars == <<Log, out, crashed, lastCall, repeat, cleared>>

----------------------------------------------------------------------------
(* Bounds of the model *)

ArgSpan == 2     \* level arguments range over (0 - ArgSpan) .. (6 + ArgSpan)
NumSinks == 2    \* distinct non-null Print objects
NumHooks == 2    \* distinct non-null printfunction values
NumMsgs == 2     \* distinct message bodies (format string with arguments)

----------------------------------------------------------------------------
(* Constants of the program *)

LOG_LEVEL_SILENT == 0
LOG_LEVEL_FATAL == 1
LOG_LEVEL_ERROR == 2
LOG_LEVEL_WARN == 3
LOG_LEVEL_INFO == 4
LOG_LEVEL_DEBUG == 5
LOG_LEVEL_TRACE == 6

nullptr == 0

\* static const char levels[] = "FEWIDT";
levels == <<"F", "E", "W", "I", "D", "T">>

\* bool showLevel = true  (default argument of begin)
beginDefaultShowLevel == TRUE

Sinks == 1..NumSinks
Hooks == 1..NumHooks
Msgs == 1..NumMsgs
LevelArgs == (LOG_LEVEL_SILENT - ArgSpan)..(LOG_LEVEL_TRACE + ArgSpan)
Tiers == LOG_LEVEL_FATAL..LOG_LEVEL_TRACE

----------------------------------------------------------------------------
(* Methods of class Logging, as operators on the object *)

\* Arduino's constrain(amt,low,high):
\*   ((amt)<(low)?(low):((amt)>(high)?(high):(amt)))
constrain_noUpper(amt, low, high) ==
    IF amt < low THEN low ELSE amt

constrain(amt, low, high) ==
    IF amt < low THEN low ELSE (IF amt > high THEN high ELSE amt)

\* Logging::Logging()
Logging ==
    [_level |-> LOG_LEVEL_SILENT, _showLevel |-> TRUE, _logOutput |-> nullptr,
     _prefix |-> nullptr, _suffix |-> nullptr]

\* void Logging::setLevel(int level)
setLevel_relative(self, level) ==
    [self EXCEPT !._level = constrain(self._level + level,
                                      LOG_LEVEL_SILENT, LOG_LEVEL_TRACE)]

setLevel(self, level) ==
    [self EXCEPT !._level = constrain(level, LOG_LEVEL_SILENT, LOG_LEVEL_TRACE)]

\* int Logging::getLevel() const
getLevel(self) == self._level

\* void Logging::setShowLevel(bool showLevel)
setShowLevel(self, showLevel) ==
    [self EXCEPT !._showLevel = showLevel]

\* bool Logging::getShowLevel() const
getShowLevel(self) == self._showLevel

\* void Logging::setPrefix(printfunction f)
setPrefix_both(self, f) == [self EXCEPT !._prefix = f, !._suffix = f]

setPrefix(self, f) == [self EXCEPT !._prefix = f]

\* void Logging::setSuffix(printfunction f)
setSuffix(self, f) == [self EXCEPT !._suffix = f]

\* void Logging::begin(int level, Print* logOutput, bool showLevel)
begin_resetsHooks(self, level, logOutput, showLevel) ==
    [_level |-> constrain(level, LOG_LEVEL_SILENT, LOG_LEVEL_TRACE),
     _showLevel |-> showLevel, _logOutput |-> logOutput,
     _prefix |-> nullptr, _suffix |-> nullptr]

begin(self, level, logOutput, showLevel) ==
    LET s1 == setLevel(self, level)
        s2 == setShowLevel(s1, showLevel)
    IN  [s2 EXCEPT !._logOutput = logOutput]

----------------------------------------------------------------------------
(* The dispatch routine *)

\* What a dereference of a null Print pointer can do: the program faults,
\* or the call through the null pointer happens to return.
UBOutcomes == {"fault", "return"}

\* _prefix(_logOutput) / _suffix(_logOutput)
HookCall(via, f, arg) == [op |-> via, f |-> f, sink |-> arg]

\* _logOutput->print(text)
SinkPrint(sink, text) == [op |-> "print", sink |-> sink, text |-> text]

\* _logOutput->printf(msg, args...)
SinkPrintf(sink, msg) == [op |-> "printf", sink |-> sink, msg |-> msg]

\* the program faults
Fault == [op |-> "fault"]

\* if (level > _level) return;
filteredOut_offByOne(self, level) == level >= self._level

filteredOut(self, level) == level > self._level

\* if (_prefix != nullptr) _prefix(_logOutput);
prefixPart(self) ==
    IF self._prefix # nullptr
    THEN << HookCall("_prefix", self._prefix, self._logOutput) >>
    ELSE << >>

\* if (_showLevel) { _logOutput->print(levels[level - 1]); _logOutput->print(": "); }
levelPart_ofThreshold(self, level) ==
    IF self._showLevel
    THEN << SinkPrint(self._logOutput, levels[(self._level - 1) + 1]),
            SinkPrint(self._logOutput, ": ") >>
    ELSE << >>

levelPart_always(self, level) ==
    << SinkPrint(self._logOutput, levels[(level - 1) + 1]),
       SinkPrint(self._logOutput, ": ") >>

levelPart(self, level) ==
    IF self._showLevel
    THEN << SinkPrint(self._logOutput, levels[(level - 1) + 1]),
            SinkPrint(self._logOutput, ": ") >>
    ELSE << >>

\* _logOutput->printf(msg, args...);
bodyPart(self, msg) == << SinkPrintf(self._logOutput, msg) >>

\* if (_suffix != nullptr) _suffix(_logOutput);
suffixPart(self) ==
    IF self._suffix # nullptr
    THEN << HookCall("_suffix", self._suffix, self._logOutput) >>
    ELSE << >>

printLevel_suffixFirst(self, level, msg, ub) ==
    IF filteredOut(self, level)
    THEN [self |-> self, events |-> << >>, fault |-> FALSE]
    ELSE
      IF self._logOutput = nullptr /\ ub = "fault"
      THEN [self |-> self, events |-> prefixPart(self) \o << Fault >>,
            fault |-> TRUE]
      ELSE [self |-> self,
            events |-> prefixPart(self) \o levelPart(self, level)
                       \o suffixPart(self) \o bodyPart(self, msg),
            fault |-> FALSE]

printLevel_storesLevel(self, level, msg, ub) ==
    IF filteredOut(self, level)
    THEN [self |-> self, events |-> << >>, fault |-> FALSE]
    ELSE
      IF self._logOutput = nullptr /\ ub = "fault"
      THEN [self |-> self, events |-> prefixPart(self) \o << Fault >>,
            fault |-> TRUE]
      ELSE [self |-> [self EXCEPT !._level = level],
            events |-> prefixPart(self) \o levelPart(self, level)
                       \o bodyPart(self, msg) \o suffixPart(self),
            fault |-> FALSE]

\* template <class T, class... Args> void printLevel(int level, T msg, Args... args)
\* Result: the object afterwards, the calls made on the hooks and the sink,
\* and whether the program faulted.  The first use of _logOutput after the
\* prefix hook dereferences it; ub resolves the dereference of a null sink.
printLevel(self, level, msg, ub) ==
    IF filteredOut(self, level)
    THEN [self |-> self, events |-> << >>, fault |-> FALSE]
    ELSE
      IF self._logOutput = nullptr /\ ub = "fault"
      THEN [self |-> self, events |-> prefixPart(self) \o << Fault >>,
            fault |-> TRUE]
      ELSE [self |-> self,
            events |-> prefixPart(self) \o levelPart(self, level)
                       \o bodyPart(self, msg) \o suffixPart(self),
            fault |-> FALSE]

----------------------------------------------------------------------------
(* Calls on the global instance *)

Call(fn, args) == [fn |-> fn, args |-> args]

SameCall(c1, c2) == c1.fn = c2.fn /\ c1.args = c2.args

\* hook members that were installed and have been reset to nullptr
Cleared(old, new) ==
    LET now(m) == (old[m] # nullptr /\ new[m] = nullptr)
                  \/ (m \in cleared /\ new[m] = nullptr)
    IN  {m \in {"_prefix", "_suffix"} : now(m)}

\* A configuration call: the object becomes new; no setter touches the sink
\* or a hook.
Configure(new, call) ==
    /\ ~crashed
    /\ Log' = new
    /\ out' = << >>
    /\ lastCall' = call
    /\ repeat' = SameCall(call, lastCall)
    /\ cleared' = Cleared(Log, new)
    /\ UNCHANGED crashed

\* A logging call: the public entry point forwards its tier to printLevel.
Dispatch(fn, level, msg, ub) ==
    LET r == printLevel(Log, level, msg, ub)
        call == Call(fn, <<msg>>)
    IN  /\ ~crashed
        /\ Log' = r.self
        /\ out' = r.events
        /\ crashed' = r.fault
        /\ lastCall' = call
        /\ repeat' = SameCall(call, lastCall)
        /\ cleared' = Cleared(Log, r.self)

\* Log.begin(level, output) and Log.begin(level, output, showLevel)
Call_begin ==
    \E level \in LevelArgs, output \in Sinks \cup {nullptr} :
        \/ Configure(begin(Log, level, output, beginDefaultShowLevel),
                     Call("begin", <<level, output>>))
        \/ \E showLevel \in BOOLEAN :
               Configure(begin(Log, level, output, showLevel),
                         Call("begin", <<level, output, showLevel>>))

\* Log.setLevel(level)
Call_setLevel ==
    \E level \in LevelArgs :
        Configure(setLevel(Log, level), Call("setLevel", <<level>>))

\* Log.setShowLevel(showLevel)
Call_setShowLevel ==
    \E showLevel \in BOOLEAN :
        Configure(setShowLevel(Log, showLevel),
                  Call("setShowLevel", <<showLevel>>))

\* Log.setPrefix(f)
Call_setPrefix ==
    \E f \in Hooks \cup {nullptr} :
        Configure(setPrefix(Log, f), Call("setPrefix", <<f>>))

\* Log.setSuffix(f)
Call_setSuffix ==
    \E f \in Hooks \cup {nullptr} :
        Configure(setSuffix(Log, f), Call("setSuffix", <<f>>))

\* Log.fatal(msg, args...)
fatal == \E msg \in Msgs, ub \in UBOutcomes :
             Dispatch("fatal", LOG_LEVEL_FATAL, msg, ub)

\* Log.error(msg, args...)
error == \E msg \in Msgs, ub \in UBOutcomes :
             Dispatch("error", LOG_LEVEL_ERROR, msg, ub)

\* Log.warn(msg, args...)
warn == \E msg \in Msgs, ub \in UBOutcomes :
            Dispatch("warn", LOG_LEVEL_WARN, msg, ub)

\* Log.info(msg, args...)
info == \E msg \in Msgs, ub \in UBOutcomes :
            Dispatch("info", LOG_LEVEL_INFO, msg, ub)

\* Log.debug(msg, args...)
debug == \E msg \in Msgs, ub \in UBOutcomes :
             Dispatch("debug", LOG_LEVEL_DEBUG, msg, ub)

\* Log.trace(msg, args...)
trace == \E msg \in Msgs, ub \in UBOutcomes :
             Dispatch("trace", LOG_LEVEL_TRACE, msg, ub)

\* Logging Log = Logging();
Init ==
    /\ Log = Logging
    /\ out = << >>
    /\ crashed = FALSE
    /\ lastCall = Call("Logging", << >>)
    /\ repeat = FALSE
    /\ cleared = {}

Next ==
    \/ Call_begin
    \/ Call_setLevel
    \/ Call_setShowLevel
    \/ Call_setPrefix
    \/ Call_setSuffix
    \/ fatal
    \/ error
    \/ warn
    \/ info
    \/ debug
    \/ trace

Spec == Init /\ [][Next]_vars

----------------------------------------------------------------------------
(* Vocabulary of the properties *)

LogFns == {"fatal", "error", "warn", "info", "debug", "trace"}

ConfigFns == {"begin", "setLevel", "setShowLevel", "setPrefix", "setSuffix"}

\* the tier of a logging entry point: fatal=1 .. trace=6
TierOf(fn) ==
    CASE fn = "fatal" -> 1
      [] fn = "error" -> 2
      [] fn = "warn" -> 3
      [] fn = "info" -> 4
      [] fn = "debug" -> 5
      [] fn = "trace" -> 6

\* the glyph of a tier
GlyphOf(tier) ==
    CASE tier = 1 -> "F"
      [] tier = 2 -> "E"
      [] tier = 3 -> "W"
      [] tier = 4 -> "I"
      [] tier = 5 -> "D"
      [] tier = 6 -> "T"

Clamp06(x) == IF x < 0 THEN 0 ELSE IF x > 6 THEN 6 ELSE x

\* the most recent call was a logging call
IsLogCall == lastCall.fn \in LogFns

LastTier == TierOf(lastCall.fn)

LastMsg == lastCall.args[1]

\* the most recent call was a logging call that passed the filter:
\* tier <= threshold and sink non-null
Passing ==
    /\ IsLogCall
    /\ LastTier <= Log._level
    /\ Log._logOutput # nullptr

\* positions of out holding a call of the given kind
Positions(op) == {i \in 1..Len(out) : out[i].op = op}

\* out[i] is the write of the message body of the call to the configured sink
IsBodyAt(i) ==
    /\ i \in 1..Len(out)
    /\ out[i].op = "printf"
    /\ out[i].sink = Log._logOutput
    /\ out[i].msg = LastMsg

\* out[i] is the invocation of the installed hook of member via with the sink
IsHookAt(i, via) ==
    /\ i \in 1..Len(out)
    /\ out[i].op = via
    /\ out[i].f = Log[via]
    /\ out[i].sink = Log._logOutput

\* out[i] is the write of text to the configured sink
IsPrintAt(i, text) ==
    /\ i \in 1..Len(out)
    /\ out[i].op = "print"
    /\ out[i].sink = Log._logOutput
    /\ out[i].text = text

----------------------------------------------------------------------------
(* C1: with a non-null sink, a log call at tier T writes the message body  *)
(* to the sink iff T <= threshold; when T > threshold it writes nothing    *)
(* and invokes neither hook.                                               *)
C1_FilterIff ==
    (IsLogCall /\ Log._logOutput # nullptr) =>
        /\ (\E i \in 1..Len(out) : IsBodyAt(i)) <=> (LastTier <= Log._level)
        /\ (LastTier > Log._level) => (out = << >>)
        /\ (Log._level = LOG_LEVEL_SILENT) => (out = << >>)
        /\ (Log._level = LOG_LEVEL_TRACE) => (\E i \in 1..Len(out) : IsBodyAt(i))

\* a call exactly at the threshold passed and wrote its body
C1_Witness ==
    /\ Passing
    /\ LastTier = Log._level
    /\ LastTier = 3
    /\ \E i \in 1..Len(out) : IsBodyAt(i)

(* C2: with a null sink a logging call at any tier is a no-op: no fault,   *)
(* no output, no hook invoked, whatever configuration calls came before.   *)
C2_NullSinkNoOp ==
    (IsLogCall /\ Log._logOutput = nullptr) => (out = << >> /\ ~crashed)

(* C3: the stored threshold is always in 0..6, and right after setLevel(x) *)
(* or begin(x, ..) getLevel() is min(max(x,0),6).                          *)
C3_LevelClamped ==
    /\ getLevel(Log) \in 0..6
    /\ (lastCall.fn \in {"setLevel", "begin"}) =>
           getLevel(Log) = Clamp06(lastCall.args[1])

\* setLevel was called with a value above the range
C3_Witness ==
    /\ lastCall.fn = "setLevel"
    /\ lastCall.args[1] > 6
    /\ getLevel(Log) = 6

(* C4: with both hooks set, a passing call invokes the prefix hook first,  *)
(* then writes the body, then invokes the suffix hook last, each hook once *)
(* and with the sink; a filtered-out call invokes neither hook.            *)
C4_HookOrder ==
    /\ (Passing /\ Log._prefix # nullptr /\ Log._suffix # nullptr) =>
           /\ Len(out) >= 3
           /\ IsHookAt(1, "_prefix")
           /\ IsHookAt(Len(out), "_suffix")
           /\ Positions("_prefix") = {1}
           /\ Positions("_suffix") = {Len(out)}
           /\ \E i \in 2..(Len(out) - 1) : IsBodyAt(i)
           /\ Cardinality(Positions("printf")) = 1
    /\ (IsLogCall /\ LastTier > Log._level) =>
           (Positions("_prefix") = {} /\ Positions("_suffix") = {})

\* a passing call ran with two different hooks installed
C4_Witness ==
    /\ Passing
    /\ Log._prefix # nullptr
    /\ Log._suffix # nullptr
    /\ Log._prefix # Log._suffix
    /\ Len(out) >= 3

C6_NoGlyph ==
    (Passing /\ ~Log._showLevel) =>
        LET b == IF Log._prefix # nullptr THEN 2 ELSE 1
            n == IF Log._suffix # nullptr THEN b + 1 ELSE b
        IN  /\ Positions("print") = {}
            /\ Len(out) = n
            /\ IsBodyAt(b)
            /\ (Log._prefix # nullptr) => IsHookAt(1, "_prefix")
            /\ (Log._suffix # nullptr) => IsHookAt(n, "_suffix")

\* a passing call ran with showLevel false and both hooks installed
C6_Witness ==
    /\ Passing
    /\ ~Log._showLevel
    /\ Log._prefix # nullptr
    /\ Log._suffix # nullptr
    /\ Len(out) = 3

(* C7: hooks are independent: once setPrefix(nullptr) has reset an         *)
(* installed prefix hook, a passing call invokes no prefix hook while an   *)
(* installed suffix hook is still invoked exactly once, after the body     *)
(* (and symmetrically for setSuffix(nullptr)); setPrefix changes only the  *)
(* prefix member and setSuffix only the suffix member.                     *)
C7_HooksIndependentState ==
    /\ (Passing /\ Log._prefix = nullptr) =>
           /\ Positions("_prefix") = {}
           /\ (Log._suffix # nullptr) =>
                  /\ Positions("_suffix") = {Len(out)}
                  /\ IsHookAt(Len(out), "_suffix")
                  /\ IsBodyAt(Len(out) - 1)
    /\ (Passing /\ Log._suffix = nullptr) =>
           /\ Positions("_suffix") = {}
           /\ (Log._prefix # nullptr) =>
                  /\ Positions("_prefix") = {1}
                  /\ IsHookAt(1, "_prefix")
                  /\ \E i \in 2..Len(out) : IsBodyAt(i)

C7_HooksIndependentStep ==
    /\ (lastCall'.fn = "setPrefix") =>
           Log' = [Log EXCEPT !._prefix = lastCall'.args[1]]
    /\ (lastCall'.fn = "setSuffix") =>
           Log' = [Log EXCEPT !._suffix = lastCall'.args[1]]

C7_HooksIndependent ==
    []C7_HooksIndependentState /\ [][C7_HooksIndependentStep]_vars

\* a passing call ran after an installed prefix hook was reset, with a
\* suffix hook still installed
C7_Witness ==
    /\ Passing
    /\ "_prefix" \in cleared
    /\ Log._prefix = nullptr
    /\ Log._suffix # nullptr
    /\ IsHookAt(Len(out), "_suffix")

(* C8: configuration calls are idempotent: making the same configuration   *)
(* call a second time in a row leaves level, showLevel, sink, prefix and   *)
(* suffix exactly as the first call left them.                             *)
C8_IdempotentStep ==
    (repeat' /\ lastCall'.fn \in ConfigFns) => (Log' = Log)

C8_Idempotent == [][C8_IdempotentStep]_vars

\* setLevel was called twice in a row with the same in-range value
C8_Witness ==
    /\ repeat
    /\ lastCall.fn = "setLevel"
    /\ lastCall.args[1] \in 1..5
    /\ getLevel(Log) = lastCall.args[1]

(* C9: begin(level, sink, showLevel) sets threshold = clamp(level, 0, 6),  *)
(* sink and showLevel (true when omitted) and leaves the prefix and suffix *)
(* hooks unchanged.                                                        *)
C9_BeginStep ==
    (lastCall'.fn = "begin") =>
        LET a == lastCall'.args
        IN  /\ Log'._level = Clamp06(a[1])
            /\ Log'._logOutput = a[2]
            /\ Log'._showLevel = (IF Len(a) = 3 THEN a[3] ELSE TRUE)
            /\ Log'._prefix = Log._prefix
            /\ Log'._suffix = Log._suffix

C9_Begin == [][C9_BeginStep]_vars

\* begin was called without showLevel while both hooks were installed
C9_Witness ==
    /\ lastCall.fn = "begin"
    /\ Len(lastCall.args) = 2
    /\ Log._showLevel
    /\ Log._logOutput # nullptr
    /\ Log._prefix # nullptr
    /\ Log._suffix # nullptr

(* C10: a logging call, passing or filtered out, leaves level, showLevel,  *)
(* sink, prefix and suffix unchanged; with a sink configured, what it      *)
(* makes the sink and the hooks see is determined by tier, message and     *)
(* configuration alone.                                                    *)
ExpectedEvents(cfg, tier, msg) ==
    IF tier > cfg._level THEN << >>
    ELSE
      (IF cfg._prefix = nullptr THEN << >>
       ELSE << [op |-> "_prefix", f |-> cfg._prefix, sink |-> cfg._logOutput] >>)
      \o
      (IF cfg._showLevel
       THEN << [op |-> "print", sink |-> cfg._logOutput, text |-> GlyphOf(tier)],
               [op |-> "print", sink |-> cfg._logOutput, text |-> ": "] >>
       ELSE << >>)
      \o
      << [op |-> "printf", sink |-> cfg._logOutput, msg |-> msg] >>
      \o
      (IF cfg._suffix = nullptr THEN << >>
       ELSE << [op |-> "_suffix", f |-> cfg._suffix, sink |-> cfg._logOutput] >>)

C10_LogFrameStep ==
    (lastCall'.fn \in LogFns) => (Log' = Log)

C10_LogDetermined ==
    (IsLogCall /\ Log._logOutput # nullptr) =>
        out = ExpectedEvents(Log, LastTier, LastMsg)

C10_LogFrame == []C10_LogDetermined /\ [][C10_LogFrameStep]_vars

\* the same passing logging call was made twice in a row
C10_Witness ==
    /\ Passing
    /\ repeat
    /\ out # << >>

====
